---------------------------- MODULE Spec2Model ----------------------------
(***************************************************************************)
(* Recursive proof composition with side-loaded verification keys.         *)
(*                                                                         *)
(*   src/src/dynamic-keys-merkletree.ts  mainProgram: a registry of        *)
(*       verification keys committed to by a Merkle root that is carried,  *)
(*       with a running value, through a chain of proofs.                  *)
(*   src/unnamed/part_000                add: one trusted key hash baked   *)
(*       into the circuit, with a skippable verification for the base case.*)
(*                                                                         *)
(* Field elements are modelled as terms: a scalar n is the one-element     *)
(* sequence <<n>>, and a Poseidon digest is the arity marker followed by   *)
(* the hashed elements.  The encoding is a prefix code, so Poseidon is     *)
(* injective and no digest equals a scalar: the collision resistance the   *)
(* programs rely on.  Scalar arithmetic wraps at FieldOrder.               *)
(*                                                                         *)
(* Spec is the chain of mainProgram with its callers, and add called on    *)
(* small scalars; SpecAllowlist is add and multiply called on every        *)
(* element of the field.                                                   *)
(***************************************************************************)
EXTENDS Integers, Sequences, FiniteSets

VARIABLES tree, mainState, call

vars == <<tree, mainState, call>>

---------------------------------------------------------------------------
(* Bounds of the model. *)

\* order of the scalar field (the Pasta prime in the programs); above the
\* values of the driver of add (5, 9, 13)
FieldOrder == 17

\* the callers of mainProgram draw their scalars from 0..MaxScalar
MaxScalar == 1

\* MerkleTree(Height): Height levels, 2^(Height-1) leaves (64 in the program)
Height == 3

\* the callers allocate the registry slots 1..MaxIndex (1n and 2n in the driver)
MaxIndex == 2

---------------------------------------------------------------------------
(* Field, Poseidon *)

F(n) == <<n>>

\* the scalar field
FieldElements == {F(n) : n \in 0..(FieldOrder - 1)}

\* the scalars the callers of mainProgram draw
Scalars == {F(n) : n \in 0..MaxScalar}

Add(a, b) == F((a[1] + b[1]) % FieldOrder)

Mul(a, b) == F((a[1] * b[1]) % FieldOrder)

LessThanOrEqual(a, b) == a[1] <= b[1]

RECURSIVE Flatten(_)
Flatten(xs) == IF xs = <<>> THEN <<>> ELSE Head(xs) \o Flatten(Tail(xs))

\* Poseidon.hash(xs)
PoseidonHash(xs) == <<0 - Len(xs)>> \o Flatten(xs)

\* the value of an unoccupied leaf, Field(0)
EMPTY == F(0)

---------------------------------------------------------------------------
(* MerkleTree(Height) and MerkleWitness(Height) *)

RECURSIVE Pow2(_)
Pow2(n) == IF n = 0 THEN 1 ELSE 2 * Pow2(n - 1)

NumLeaves == Pow2(Height - 1)

Leaves == 0..(NumLeaves - 1)

\* new MerkleTree(Height)
EmptyTree == [i \in Leaves |-> EMPTY]

\* tree.setLeaf(index, leaf)
setLeaf(t, index, leaf) == [t EXCEPT ![index] = leaf]

\* the node at a level (0 = the leaves) and an index of that level
RECURSIVE getNode(_, _, _)
getNode(t, level, index) ==
    IF level = 0
    THEN t[index]
    ELSE PoseidonHash(<<getNode(t, level - 1, 2 * index),
                        getNode(t, level - 1, 2 * index + 1)>>)

\* tree.getRoot()
getRoot(t) == getNode(t, Height - 1, 0)

\* tree.getWitness(index): per level below the root, the side and the sibling
getWitness(t, index) ==
    [l \in 1..(Height - 1) |->
        LET pos == index \div Pow2(l - 1)
            isLeft == pos % 2 = 0
        IN  [isLeft |-> isLeft,
             sibling |-> getNode(t, l - 1, IF isLeft THEN pos + 1 ELSE pos - 1)]]

\* witness.calculateRoot(leaf)
RECURSIVE rootFrom(_, _, _)
rootFrom(w, hash, l) ==
    IF l > Len(w)
    THEN hash
    ELSE LET left == IF w[l].isLeft THEN hash ELSE w[l].sibling
             right == IF w[l].isLeft THEN w[l].sibling ELSE hash
         IN  rootFrom(w, PoseidonHash(<<left, right>>), l + 1)

calculateRoot(w, leaf) == rootFrom(w, leaf, 1)

\* witness.calculateIndex()
RECURSIVE indexFrom(_, _)
indexFrom(w, l) ==
    IF l > Len(w)
    THEN 0
    ELSE (IF w[l].isLeft THEN 0 ELSE Pow2(l - 1)) + indexFrom(w, l + 1)

calculateIndex(w) == indexFrom(w, 1)

---------------------------------------------------------------------------
(* Verification keys and proofs *)

\* (await program.compile()).verificationKey: the key and the hash of its data
VerificationKey(name) == [name |-> name, hash |-> PoseidonHash(<<name>>)]

\* VerificationKey.toFields(vk)
toFields(vk) == <<vk.hash>>

\* the origin of a proof no circuit produced (Proof.dummy)
NoKey == F(0)

\* the public input of a program that declares none
Undefined == <<>>

\* a proof: its public input and output, and the hash of the key of the
\* circuit that produced it
Proof(publicInput, publicOutput, origin) ==
    [publicInput |-> publicInput, publicOutput |-> publicOutput, origin |-> origin]

\* the backend's verify(proof, vk)
Verify(proof, vk) == proof.origin = vk.hash

\* verifyIf that never asks for the verification
verifyIf_NeverVerifies(proof, vk, condition) == TRUE

\* proof.verifyIf(vk, condition): the constraint it adds to the circuit
verifyIf(proof, vk, condition) == condition => Verify(proof, vk)

\* A method returns its public output, or stops at the first assertion that
\* fails.  The assertions are named after the failure they stand for:
\*   dynamic-keys-merkletree.ts 102-105  SlotOccupied
\*   dynamic-keys-merkletree.ts 129-130  ContinuityBroken
\*   dynamic-keys-merkletree.ts 134-137  UntrustedKey
\*   dynamic-keys-merkletree.ts 139      ProofInvalid
\*   dynamic-keys-merkletree.ts 142      ConstraintViolation
\*   part_000 39                         UntrustedKey
\*   part_000 43                         ProofInvalid
\* proof.verify and proof.verifyIf mark the proof for the backend, which
\* verifies it while it builds the proof of the step; no property below
\* depends on whether that failure shows before or after line 142.
Accept(out) == [ok |-> TRUE, err |-> "none", out |-> out]

Reject(err) == [ok |-> FALSE, err |-> err, out |-> "none"]

---------------------------------------------------------------------------
(* sideloadedProgram, sideloadedProgram2 *)

programVk == VerificationKey(F(1))

program2Vk == VerificationKey(F(2))

SideloadedKeys == {programVk, program2Vk}

\* sideloadedProgram.compute
compute(publicInput, privateInput) == Accept(Add(publicInput, privateInput))

\* sideloadedProgram.assertAndAdd
assertAndAdd(publicInput, privateInput) ==
    IF ~LessThanOrEqual(publicInput, privateInput)
    THEN Reject("ConstraintViolation")
    ELSE Accept(Add(publicInput, privateInput))

\* sideloadedProgram2.compute
compute2(publicInput, privateInput) == Accept(Mul(publicInput, privateInput))

\* sideloadedProgram2.assertAndMul
assertAndMul(publicInput, privateInput) ==
    IF ~LessThanOrEqual(publicInput, privateInput)
    THEN Reject("ConstraintViolation")
    ELSE Accept(Mul(publicInput, privateInput))

\* the child proofs a caller can hold: SideloadedProgramProof.fromProof of a
\* proof of either program, or a dummy proof of any statement
SideloadedProgramProofs ==
    {Proof(i, compute(i, p).out, programVk.hash) : i \in Scalars, p \in Scalars}
    \cup {Proof(x[1], assertAndAdd(x[1], x[2]).out, programVk.hash) :
            x \in {y \in Scalars \X Scalars : assertAndAdd(y[1], y[2]).ok}}
    \cup {Proof(i, compute2(i, p).out, program2Vk.hash) : i \in Scalars, p \in Scalars}
    \cup {Proof(x[1], assertAndMul(x[1], x[2]).out, program2Vk.hash) :
            x \in {y \in Scalars \X Scalars : assertAndMul(y[1], y[2]).ok}}
    \cup {Proof(i, o, NoKey) : i \in Scalars, o \in Scalars}

---------------------------------------------------------------------------
(* mainProgram *)

mainVk == VerificationKey(F(5))

MainProgramState(treeRoot, state) == [treeRoot |-> treeRoot, state |-> state]

\* a proof of mainProgram handed in as SelfProof (the method reads its public
\* output only)
SelfProof(publicOutput, origin) == [publicOutput |-> publicOutput, origin |-> origin]

\* addSideloadedProgram that lets a key be registered again where it is
addSideloadedProgram_Idempotent(publicInput, vk, merkleWitness) ==
    LET currentRoot == calculateRoot(merkleWitness, F(0))
        newRoot == calculateRoot(merkleWitness, vk.hash)
    IN  IF publicInput.treeRoot # currentRoot /\ publicInput.treeRoot # newRoot
        THEN Reject("SlotOccupied")
        ELSE Accept(MainProgramState(newRoot, publicInput.state))

\* addSideloadedProgram that stores the hash of the key's fields, as add does
addSideloadedProgram_HashOfFields(publicInput, vk, merkleWitness) ==
    LET currentRoot == calculateRoot(merkleWitness, F(0))
        newRoot == calculateRoot(merkleWitness, PoseidonHash(toFields(vk)))
    IN  IF publicInput.treeRoot # currentRoot
        THEN Reject("SlotOccupied")
        ELSE Accept(MainProgramState(newRoot, publicInput.state))

\* addSideloadedProgram without the assertion on the input root
addSideloadedProgram_NoRootCheck(publicInput, vk, merkleWitness) ==
    LET newRoot == calculateRoot(merkleWitness, vk.hash)
    IN  Accept(MainProgramState(newRoot, publicInput.state))

\* addSideloadedProgram that returns the genesis value, Field(0)
addSideloadedProgram_ResetsValue(publicInput, vk, merkleWitness) ==
    LET currentRoot == calculateRoot(merkleWitness, F(0))
        newRoot == calculateRoot(merkleWitness, vk.hash)
    IN  IF publicInput.treeRoot # currentRoot
        THEN Reject("SlotOccupied")
        ELSE Accept(MainProgramState(newRoot, F(0)))

\* addSideloadedProgram that returns the root it checked, not the new one
addSideloadedProgram_ReturnsCurrentRoot(publicInput, vk, merkleWitness) ==
    LET currentRoot == calculateRoot(merkleWitness, F(0))
    IN  IF publicInput.treeRoot # currentRoot
        THEN Reject("SlotOccupied")
        ELSE Accept(MainProgramState(currentRoot, publicInput.state))

\* addSideloadedProgram that also takes a slot holding the key of
\* sideloadedProgram for free, and so updates it in place
addSideloadedProgram_UpdateInPlace(publicInput, vk, merkleWitness) ==
    LET currentRoot == calculateRoot(merkleWitness, F(0))
        heldRoot == calculateRoot(merkleWitness, programVk.hash)
        newRoot == calculateRoot(merkleWitness, vk.hash)
    IN  IF publicInput.treeRoot # currentRoot /\ publicInput.treeRoot # heldRoot
        THEN Reject("SlotOccupied")
        ELSE Accept(MainProgramState(newRoot, publicInput.state))

\* addSideloadedProgram that takes the genesis value only
addSideloadedProgram_GenesisValueOnly(publicInput, vk, merkleWitness) ==
    LET currentRoot == calculateRoot(merkleWitness, F(0))
        newRoot == calculateRoot(merkleWitness, vk.hash)
    IN  IF publicInput.treeRoot # currentRoot \/ publicInput.state # F(0)
        THEN Reject("SlotOccupied")
        ELSE Accept(MainProgramState(newRoot, publicInput.state))

addSideloadedProgram(publicInput, vk, merkleWitness) ==
    LET currentRoot == calculateRoot(merkleWitness, F(0))
        newRoot == calculateRoot(merkleWitness, vk.hash)
    IN  IF publicInput.treeRoot # currentRoot
        THEN Reject("SlotOccupied")
        ELSE Accept(MainProgramState(newRoot, publicInput.state))

\* validateUsingTree without the assertion on the predecessor's root
validateUsingTree_NoRootContinuity(publicInput, previous, vk, merkleWitness, proof) ==
    LET computedRoot == calculateRoot(merkleWitness, vk.hash)
        newState == proof.publicOutput
    IN  IF previous.publicOutput.state # publicInput.state
        THEN Reject("ContinuityBroken")
        ELSE IF publicInput.treeRoot # computedRoot
        THEN Reject("UntrustedKey")
        ELSE IF ~Verify(proof, vk)
        THEN Reject("ProofInvalid")
        ELSE IF proof.publicInput # publicInput.state
        THEN Reject("ConstraintViolation")
        ELSE Accept(MainProgramState(publicInput.treeRoot, newState))

\* validateUsingTree without the assertion on the witness
validateUsingTree_NoWitnessCheck(publicInput, previous, vk, merkleWitness, proof) ==
    LET newState == proof.publicOutput
    IN  IF previous.publicOutput.state # publicInput.state
        THEN Reject("ContinuityBroken")
        ELSE IF previous.publicOutput.treeRoot # publicInput.treeRoot
        THEN Reject("ContinuityBroken")
        ELSE IF ~Verify(proof, vk)
        THEN Reject("ProofInvalid")
        ELSE IF proof.publicInput # publicInput.state
        THEN Reject("ConstraintViolation")
        ELSE Accept(MainProgramState(publicInput.treeRoot, newState))

\* validateUsingTree with the witness checked as addSideloadedProgram checks it
validateUsingTree_WitnessOfEmpty(publicInput, previous, vk, merkleWitness, proof) ==
    LET computedRoot == calculateRoot(merkleWitness, F(0))
        newState == proof.publicOutput
    IN  IF previous.publicOutput.state # publicInput.state
        THEN Reject("ContinuityBroken")
        ELSE IF previous.publicOutput.treeRoot # publicInput.treeRoot
        THEN Reject("ContinuityBroken")
        ELSE IF publicInput.treeRoot # computedRoot
        THEN Reject("UntrustedKey")
        ELSE IF ~Verify(proof, vk)
        THEN Reject("ProofInvalid")
        ELSE IF proof.publicInput # publicInput.state
        THEN Reject("ConstraintViolation")
        ELSE Accept(MainProgramState(publicInput.treeRoot, newState))

\* validateUsingTree that returns the public input of the child proof
validateUsingTree_ReturnsInput(publicInput, previous, vk, merkleWitness, proof) ==
    LET computedRoot == calculateRoot(merkleWitness, vk.hash)
        newState == proof.publicInput
    IN  IF previous.publicOutput.state # publicInput.state
        THEN Reject("ContinuityBroken")
        ELSE IF previous.publicOutput.treeRoot # publicInput.treeRoot
        THEN Reject("ContinuityBroken")
        ELSE IF publicInput.treeRoot # computedRoot
        THEN Reject("UntrustedKey")
        ELSE IF ~Verify(proof, vk)
        THEN Reject("ProofInvalid")
        ELSE IF proof.publicInput # publicInput.state
        THEN Reject("ConstraintViolation")
        ELSE Accept(MainProgramState(publicInput.treeRoot, newState))

\* validateUsingTree without the assertion on the public input of the proof
validateUsingTree_NoInputCheck(publicInput, previous, vk, merkleWitness, proof) ==
    LET computedRoot == calculateRoot(merkleWitness, vk.hash)
        newState == proof.publicOutput
    IN  IF previous.publicOutput.state # publicInput.state
        THEN Reject("ContinuityBroken")
        ELSE IF previous.publicOutput.treeRoot # publicInput.treeRoot
        THEN Reject("ContinuityBroken")
        ELSE IF publicInput.treeRoot # computedRoot
        THEN Reject("UntrustedKey")
        ELSE IF ~Verify(proof, vk)
        THEN Reject("ProofInvalid")
        ELSE Accept(MainProgramState(publicInput.treeRoot, newState))

\* validateUsingTree with the conditional verification of performAddition
validateUsingTree_SkipOnZero(publicInput, previous, vk, merkleWitness, proof) ==
    LET computedRoot == calculateRoot(merkleWitness, vk.hash)
        newState == proof.publicOutput
    IN  IF previous.publicOutput.state # publicInput.state
        THEN Reject("ContinuityBroken")
        ELSE IF previous.publicOutput.treeRoot # publicInput.treeRoot
        THEN Reject("ContinuityBroken")
        ELSE IF publicInput.treeRoot # computedRoot
        THEN Reject("UntrustedKey")
        ELSE IF ~verifyIf(proof, vk, ~(publicInput.state = F(0)))
        THEN Reject("ProofInvalid")
        ELSE IF proof.publicInput # publicInput.state
        THEN Reject("ConstraintViolation")
        ELSE Accept(MainProgramState(publicInput.treeRoot, newState))

\* the assertions in the order the method states them
validateUsingTree(publicInput, previous, vk, merkleWitness, proof) ==
    LET computedRoot == calculateRoot(merkleWitness, vk.hash)
        newState == proof.publicOutput
    IN  IF previous.publicOutput.state # publicInput.state
        THEN Reject("ContinuityBroken")
        ELSE IF previous.publicOutput.treeRoot # publicInput.treeRoot
        THEN Reject("ContinuityBroken")
        ELSE IF publicInput.treeRoot # computedRoot
        THEN Reject("UntrustedKey")
        ELSE IF ~Verify(proof, vk)
        THEN Reject("ProofInvalid")
        ELSE IF proof.publicInput # publicInput.state
        THEN Reject("ConstraintViolation")
        ELSE Accept(MainProgramState(publicInput.treeRoot, newState))

---------------------------------------------------------------------------
(* add, multiply *)

addVk == VerificationKey(F(3))

mulVk == VerificationKey(F(4))

\* Poseidon.hash(VerificationKey.toFields(mulVk)), "calculated from a previous run"
trustedMulVkHash == PoseidonHash(toFields(mulVk))

\* multiply.performMultiplication
performMultiplication(field1, field2) == Accept(Mul(field1, field2))

\* performAddition with the key checked on the verifying path only
performAddition_TrustOnVerifyOnly(field, proof, vk) ==
    LET vkHash == PoseidonHash(toFields(vk))
        multiplyResult == proof.publicOutput
    IN  IF multiplyResult # F(0) /\ vkHash # trustedMulVkHash
        THEN Reject("UntrustedKey")
        ELSE IF ~verifyIf(proof, vk, ~(multiplyResult = F(0)))
        THEN Reject("ProofInvalid")
        ELSE Accept(Add(multiplyResult, field))

\* performAddition that verifies the proof on every path (verify for verifyIf)
performAddition_AlwaysVerify(field, proof, vk) ==
    LET vkHash == PoseidonHash(toFields(vk))
        multiplyResult == proof.publicOutput
    IN  IF vkHash # trustedMulVkHash
        THEN Reject("UntrustedKey")
        ELSE IF ~Verify(proof, vk)
        THEN Reject("ProofInvalid")
        ELSE Accept(Add(multiplyResult, field))

\* performAddition with the condition the wrong way round (the .not() left out)
performAddition_ConditionInverted(field, proof, vk) ==
    LET vkHash == PoseidonHash(toFields(vk))
        multiplyResult == proof.publicOutput
    IN  IF vkHash # trustedMulVkHash
        THEN Reject("UntrustedKey")
        ELSE IF ~verifyIf(proof, vk, multiplyResult = F(0))
        THEN Reject("ProofInvalid")
        ELSE Accept(Add(multiplyResult, field))

\* performAddition that returns the product and leaves the addend out
performAddition_ReturnsProduct(field, proof, vk) ==
    LET vkHash == PoseidonHash(toFields(vk))
        multiplyResult == proof.publicOutput
    IN  IF vkHash # trustedMulVkHash
        THEN Reject("UntrustedKey")
        ELSE IF ~verifyIf(proof, vk, ~(multiplyResult = F(0)))
        THEN Reject("ProofInvalid")
        ELSE Accept(multiplyResult)

\* performAddition that takes the skip decision from its private addend
performAddition_SkipOnField(field, proof, vk) ==
    LET vkHash == PoseidonHash(toFields(vk))
        multiplyResult == proof.publicOutput
    IN  IF vkHash # trustedMulVkHash
        THEN Reject("UntrustedKey")
        ELSE IF ~verifyIf(proof, vk, ~(field = F(0)))
        THEN Reject("ProofInvalid")
        ELSE Accept(Add(multiplyResult, field))

\* add.performAddition
performAddition(field, proof, vk) ==
    LET vkHash == PoseidonHash(toFields(vk))
        multiplyResult == proof.publicOutput
    IN  IF vkHash # trustedMulVkHash
        THEN Reject("UntrustedKey")
        ELSE IF ~verifyIf(proof, vk, ~(multiplyResult = F(0)))
        THEN Reject("ProofInvalid")
        ELSE Accept(Add(multiplyResult, field))

AllowlistKeys == {mulVk, addVk}

\* the proofs a caller can hand in as DynamicMultiplyProof: a proof of
\* multiply, a proof of add, or a dummy proof of any output
DynamicMultiplyProofsOver(S) ==
    {Proof(Undefined, performMultiplication(a, b).out, mulVk.hash) :
        a \in S, b \in S}
    \cup {Proof(Undefined, o, addVk.hash) : o \in S}
    \cup {Proof(Undefined, o, NoKey) : o \in S}

DynamicMultiplyProofs == DynamicMultiplyProofsOver(Scalars)

---------------------------------------------------------------------------
(* The inputs a caller can supply to mainProgram *)

Slots == 1..MaxIndex

\* the leaves of a tree that hold a key
Occupied(t) == {j \in Leaves : t[j] # EMPTY}

\* a registry, and the registry before any one of its inserts
TreesUpTo(t) == {t} \cup {setLeaf(t, j, EMPTY) : j \in Occupied(t)}

PoolTrees == TreesUpTo(tree)

\* witnesses built against the current tree or against a stale one
Witnesses == {getWitness(t, i) : t \in PoolTrees, i \in Slots}

OtherValue(s) == MainProgramState(s.treeRoot, Add(s.state, F(1)))

\* the head of the chain; a state with another value; a state with a stale root
InputStates ==
    {mainState, OtherValue(mainState)}
    \cup {MainProgramState(getRoot(t), mainState.state) : t \in PoolTrees}

\* a state that differs from s in the root only
OtherRoot(s) ==
    MainProgramState(
        IF s.treeRoot = getRoot(EmptyTree) THEN getRoot(setLeaf(EmptyTree, 1, programVk.hash))
        ELSE getRoot(EmptyTree),
        s.state)

\* the predecessor proofs a caller can hand in for the input state s: the
\* proof of the head once the chain has one, or a dummy proof whose output
\* is s or differs from it in the value or in the root
PreviousProofs(s) ==
    {SelfProof(o, NoKey) : o \in {s, OtherValue(s), OtherRoot(s)}}
    \cup (IF tree # EmptyTree THEN {SelfProof(mainState, mainVk.hash)} ELSE {})

---------------------------------------------------------------------------
(* Actions.  A call records its inputs and its result in `call`; the driver *)
(* then goes on to its next call.                                           *)

Init ==
    /\ tree = EmptyTree
    /\ mainState = MainProgramState(getRoot(EmptyTree), F(0))
    /\ call = [method |-> "none"]

\* a RegistryUpdate step; an accepted step on the head extends the chain and
\* the caller's tree (tree.setLeaf)
AddSideloadedProgram ==
    /\ call.method = "none"
    /\ \E publicInput \in InputStates, vk \in SideloadedKeys, w \in Witnesses :
        LET res == addSideloadedProgram(publicInput, vk, w)
        IN  /\ call' = [method |-> "addSideloadedProgram",
                        publicInput |-> publicInput, vk |-> vk,
                        merkleWitness |-> w, result |-> res,
                        treeBefore |-> tree, stateBefore |-> mainState]
            /\ IF res.ok /\ publicInput = mainState
               THEN /\ mainState' = res.out
                    /\ tree' = setLeaf(tree, calculateIndex(w), vk.hash)
               ELSE UNCHANGED <<tree, mainState>>

\* a Validate step; an accepted step on the head extends the chain
ValidateUsingTree ==
    /\ call.method = "none"
    /\ \E publicInput \in InputStates, vk \in SideloadedKeys, w \in Witnesses,
          proof \in SideloadedProgramProofs :
        \E previous \in PreviousProofs(publicInput) :
            LET res == validateUsingTree(publicInput, previous, vk, w, proof)
            IN  /\ call' = [method |-> "validateUsingTree",
                            publicInput |-> publicInput, previous |-> previous,
                            vk |-> vk, merkleWitness |-> w, proof |-> proof,
                            result |-> res,
                            treeBefore |-> tree, stateBefore |-> mainState]
                /\ mainState' = IF res.ok /\ publicInput = mainState
                                THEN res.out ELSE mainState
                /\ UNCHANGED tree

\* a step of the add program, on the scalars of S
PerformAdditionOver(S) ==
    /\ call.method = "none"
    /\ \E field \in S, proof \in DynamicMultiplyProofsOver(S), vk \in AllowlistKeys :
        /\ call' = [method |-> "performAddition", field |-> field,
                    proof |-> proof, vk |-> vk,
                    result |-> performAddition(field, proof, vk)]
        /\ UNCHANGED <<tree, mainState>>

PerformAddition == PerformAdditionOver(Scalars)

\* the driver goes on to its next call
Continue ==
    /\ call.method # "none"
    /\ call' = [method |-> "none"]
    /\ UNCHANGED <<tree, mainState>>

Next ==
    \/ AddSideloadedProgram
    \/ ValidateUsingTree
    \/ PerformAddition
    \/ Continue

Spec == Init /\ [][Next]_vars

---------------------------------------------------------------------------
(* add and multiply on the whole field *)

\* a step of the multiply program, and the proof it yields
PerformMultiplication ==
    /\ call.method = "none"
    /\ \E field1 \in FieldElements, field2 \in FieldElements :
        LET res == performMultiplication(field1, field2)
        IN  /\ call' = [method |-> "performMultiplication",
                        field1 |-> field1, field2 |-> field2, result |-> res,
                        proof |-> Proof(Undefined, res.out, mulVk.hash)]
            /\ UNCHANGED <<tree, mainState>>

AllowlistPerformAddition == PerformAdditionOver(FieldElements)

NextAllowlist ==
    \/ PerformMultiplication
    \/ AllowlistPerformAddition
    \/ Continue

SpecAllowlist == Init /\ [][NextAllowlist]_vars

---------------------------------------------------------------------------
(* Properties *)

IsValidate == call.method = "validateUsingTree"

IsAdd == call.method = "addSideloadedProgram"

IsAddition == call.method = "performAddition"

\* the assertions of validateUsingTree, each on its own
ContinuityHolds == call.previous.publicOutput = call.publicInput

KeyInTree == calculateRoot(call.merkleWitness, call.vk.hash) = call.publicInput.treeRoot

ChildVerifies == Verify(call.proof, call.vk)

ChildInputMatches == call.proof.publicInput = call.publicInput.state

\* C1. Chain continuity: a Validate step whose predecessor proof has a public
\* output that differs from the input state, in the value or in the root, is
\* rejected with ContinuityBroken, whatever the key, the witness and the
\* dynamic proof.
C1_ChainContinuity ==
    (IsValidate /\ call.previous.publicOutput # call.publicInput)
        => (~call.result.ok /\ call.result.err = "ContinuityBroken")

\* a predecessor that differs in the root only, with every other input good
C1_Witness ==
    /\ IsValidate
    /\ call.previous.publicOutput.state = call.publicInput.state
    /\ call.previous.publicOutput.treeRoot # call.publicInput.treeRoot
    /\ KeyInTree /\ ChildVerifies /\ ChildInputMatches
    /\ call.result.err = "ContinuityBroken"

\* C2 as stated: a Validate step is rejected with UntrustedKey whenever the
\* witness does not recompute the input root from the hash of the key.
C2_Original ==
    (IsValidate /\ ~KeyInTree)
        => (~call.result.ok /\ call.result.err = "UntrustedKey")

\* C2, amended. A Validate step whose witness does not recompute the input
\* root from the hash of the key is rejected: with UntrustedKey when the
\* predecessor's output equals the input state, with ContinuityBroken when
\* it does not.  So no Validate step is accepted with a key that is not a
\* leaf of the tree the input root commits to.
C2_MerkleRegistryTrust ==
    IsValidate =>
        /\ ~KeyInTree =>
            /\ ~call.result.ok
            /\ call.result.err =
                 IF ContinuityHolds THEN "UntrustedKey" ELSE "ContinuityBroken"
        /\ \A t \in PoolTrees :
            (call.result.ok /\ getRoot(t) = call.publicInput.treeRoot)
                => \E i \in Leaves : t[i] = call.vk.hash

\* a key that is not in the tree of the input root, every other input good
C2_Witness ==
    /\ IsValidate
    /\ call.publicInput = mainState
    /\ call.publicInput.treeRoot = getRoot(tree)
    /\ \A i \in Leaves : tree[i] # call.vk.hash
    /\ Occupied(tree) # {}
    /\ ContinuityHolds /\ ChildVerifies /\ ChildInputMatches
    /\ call.result.err = "UntrustedKey"

\* C3. Allowlist trust: performAddition is accepted only with a key whose
\* hash is the trusted hash, on the path that skips verification as on the
\* path that verifies; any other key is rejected with UntrustedKey.
C3_AllowlistTrust ==
    IsAddition =>
        /\ call.result.ok => PoseidonHash(toFields(call.vk)) = trustedMulVkHash
        /\ PoseidonHash(toFields(call.vk)) # trustedMulVkHash
            => (~call.result.ok /\ call.result.err = "UntrustedKey")

\* the base case with a key that is not the trusted one
C3_Witness ==
    /\ IsAddition
    /\ call.proof.publicOutput = F(0)
    /\ call.vk = addVk
    /\ call.result.err = "UntrustedKey"

\* the registry a RegistryUpdate step was called on, and its stale versions
TreesBefore == TreesUpTo(call.treeBefore)

\* C4. Inserting at a non-empty slot always fails: a RegistryUpdate step on
\* the root of a tree, with a witness for an index whose leaf is occupied in
\* that tree, is rejected with SlotOccupied, whatever the key.
C4_SlotOccupied ==
    IsAdd =>
        \A t \in TreesBefore :
            (/\ getRoot(t) = call.publicInput.treeRoot
             /\ t[calculateIndex(call.merkleWitness)] # EMPTY)
                => (~call.result.ok /\ call.result.err = "SlotOccupied")

\* the key that the slot already holds, with the witness of that slot
C4_Witness ==
    /\ IsAdd
    /\ call.publicInput = call.stateBefore
    /\ call.publicInput.treeRoot = getRoot(call.treeBefore)
    /\ call.treeBefore[calculateIndex(call.merkleWitness)] = call.vk.hash
    /\ call.merkleWitness
         = getWitness(call.treeBefore, calculateIndex(call.merkleWitness))
    /\ call.result.err = "SlotOccupied"

\* C5. Insert correctness: a RegistryUpdate step on the root of a tree T,
\* with the witness of an index i that is empty in T, is accepted; its new
\* root is the root of T with leaf i set to the hash of the key, and a fresh
\* witness for i from that tree recomputes the new root from that hash.
C5_InsertCorrect ==
    IsAdd =>
        \A t \in TreesBefore : \A i \in Slots :
            (/\ getRoot(t) = call.publicInput.treeRoot
             /\ call.merkleWitness = getWitness(t, i)
             /\ t[i] = EMPTY)
                => LET updated == setLeaf(t, i, call.vk.hash)
                   IN  /\ call.result.ok
                       /\ call.result.out.treeRoot = getRoot(updated)
                       /\ calculateRoot(getWitness(updated, i), call.vk.hash)
                            = call.result.out.treeRoot

\* the second insert of the driver: into a tree that holds a key already
C5_Witness ==
    /\ IsAdd
    /\ call.result.ok
    /\ call.publicInput = call.stateBefore
    /\ Occupied(call.treeBefore) # {}
    /\ call.treeBefore[calculateIndex(call.merkleWitness)] = EMPTY
    /\ call.merkleWitness
         = getWitness(call.treeBefore, calculateIndex(call.merkleWitness))
    /\ tree = setLeaf(call.treeBefore, calculateIndex(call.merkleWitness), call.vk.hash)
    /\ mainState.treeRoot = getRoot(tree)

\* the witness of index i built before the insert at index j
StaleWitness(t, j, i) == getWitness(setLeaf(t, j, EMPTY), i)

\* C6. Stale witnesses after an insert: in a Validate step on the current
\* root whose other inputs are good, the witness of a key at index i that was
\* built before the insert at another index j no longer recomputes the root,
\* and the step is accepted iff its witness is the witness, in the current
\* tree, of a leaf that holds the hash of the key.
C6_StaleWitness ==
    (/\ IsValidate
     /\ call.publicInput.treeRoot = getRoot(tree)
     /\ ContinuityHolds /\ ChildVerifies /\ ChildInputMatches)
    => /\ \A j \in Occupied(tree) : \A i \in Occupied(tree) \ {j} :
            calculateRoot(StaleWitness(tree, j, i), tree[i]) # getRoot(tree)
       /\ call.result.ok
            <=> \E x \in Leaves : /\ tree[x] = call.vk.hash
                                  /\ call.merkleWitness = getWitness(tree, x)

\* the key of index i with the witness built before the insert at index j
C6_Witness ==
    /\ IsValidate
    /\ call.publicInput = mainState
    /\ call.publicInput.treeRoot = getRoot(tree)
    /\ ContinuityHolds /\ ChildVerifies /\ ChildInputMatches
    /\ \E j \in Occupied(tree) : \E i \in Occupied(tree) \ {j} :
         /\ tree[i] = call.vk.hash
         /\ call.merkleWitness = StaleWitness(tree, j, i)
    /\ call.result.err = "UntrustedKey"

\* C7. Single-writer inserts: an insert whose witness was built before
\* another insert (at the same or at another index) is rejected on the state
\* that insert produced; and an insert accepted on the root of the tree
\* fills an empty leaf of it and keeps every other leaf.
C7_SingleWriter ==
    (IsAdd /\ call.publicInput.treeRoot = getRoot(call.treeBefore)) =>
        /\ \A j \in Occupied(call.treeBefore) : \A i \in Slots :
             call.merkleWitness = StaleWitness(call.treeBefore, j, i)
                => (~call.result.ok /\ call.result.err = "SlotOccupied")
        /\ call.result.ok =>
             LET i == calculateIndex(call.merkleWitness)
             IN  /\ call.treeBefore[i] = EMPTY
                 /\ call.result.out.treeRoot
                      = getRoot(setLeaf(call.treeBefore, i, call.vk.hash))

\* two inserts prepared against the same root at different indices: the
\* second, on the state the first produced
C7_Witness ==
    /\ IsAdd
    /\ call.publicInput = call.stateBefore
    /\ call.publicInput.treeRoot = getRoot(call.treeBefore)
    /\ \E j \in Occupied(call.treeBefore) : \E i \in Slots \ {j} :
         /\ call.treeBefore[i] = EMPTY
         /\ call.merkleWitness = StaleWitness(call.treeBefore, j, i)
    /\ call.result.err = "SlotOccupied"
    /\ tree = call.treeBefore

\* the assertion of performAddition on the key
KeyTrusted == PoseidonHash(toFields(call.vk)) = trustedMulVkHash

\* the condition performAddition computes for verifyIf
SkipCondition == call.proof.publicOutput = F(0)

\* C8. Base-case skip: when the public output of the dynamic proof is 0,
\* performAddition never fails on the proof, whatever the proof is: with the
\* trusted key it is accepted, and it is never rejected with ProofInvalid.
C8_BaseCaseSkip ==
    (IsAddition /\ SkipCondition) =>
        /\ call.result.err # "ProofInvalid"
        /\ KeyTrusted => call.result.ok

\* the base case of the driver: a dummy proof, which does not verify
C8_Witness ==
    /\ IsAddition
    /\ SkipCondition
    /\ call.proof.origin = NoKey
    /\ ~Verify(call.proof, call.vk)
    /\ call.vk = mulVk
    /\ call.result.ok

\* a step that verifies its dynamic proof: every Validate step, and a
\* performAddition whose proof has a public output other than 0
NonSkipStep == IsValidate \/ (IsAddition /\ ~SkipCondition)

\* the assertions of the step other than the verification of the proof
OtherChecksPass ==
    IF IsValidate
    THEN ContinuityHolds /\ KeyInTree /\ ChildInputMatches
    ELSE KeyTrusted

\* C9 as stated: on the non-skip path the step is rejected with ProofInvalid
\* if and only if verify(proof, key) is false.
C9_Original ==
    NonSkipStep =>
        (call.result.err = "ProofInvalid" <=> ~Verify(call.proof, call.vk))

\* C9, amended. On the non-skip path a proof that does not verify is never
\* accepted and a proof that verifies never causes ProofInvalid; when every
\* other assertion of the step holds, the step is rejected with ProofInvalid
\* if and only if verify(proof, key) is false.
C9_NonSkipPath ==
    NonSkipStep =>
        /\ call.result.ok => Verify(call.proof, call.vk)
        /\ Verify(call.proof, call.vk) => call.result.err # "ProofInvalid"
        /\ OtherChecksPass =>
             (call.result.err = "ProofInvalid" <=> ~Verify(call.proof, call.vk))

\* a proof of multiply's sibling handed in with the trusted key
C9_Witness ==
    /\ IsAddition
    /\ ~SkipCondition
    /\ KeyTrusted
    /\ call.proof.origin = addVk.hash
    /\ call.result.err = "ProofInvalid"

\* C10. Validate output: an accepted Validate step returns the input root
\* with the public output of the dynamic proof; it leaves the registry as it
\* was, and on the head of the chain its output is the new head.
C10_ValidateOutput ==
    (IsValidate /\ call.result.ok) =>
        /\ call.result.out
             = MainProgramState(call.publicInput.treeRoot, call.proof.publicOutput)
        /\ tree = call.treeBefore
        /\ call.publicInput = call.stateBefore
             => (mainState = call.result.out
                 /\ mainState.treeRoot = call.stateBefore.treeRoot)

\* an accepted step on the head that changes the value
C10_Witness ==
    /\ IsValidate
    /\ call.result.ok
    /\ call.publicInput = call.stateBefore
    /\ call.proof.publicOutput # call.publicInput.state
    /\ mainState.state = call.proof.publicOutput


\* C11. RegistryUpdate frame: an accepted RegistryUpdate step returns the
\* value of its input state; only the root changes, and on the head of the
\* chain the value of the chain stays what it was.
C11_RegistryUpdateFrame ==
    (IsAdd /\ call.result.ok) =>
        /\ call.result.out.state = call.publicInput.state
        /\ call.result.out.treeRoot # call.publicInput.treeRoot
        /\ call.publicInput = call.stateBefore
             => mainState.state = call.stateBefore.state

\* an insert on a head whose value is no longer the genesis value
C11_Witness ==
    /\ IsAdd
    /\ call.result.ok
    /\ call.publicInput = call.stateBefore
    /\ call.publicInput.state # F(0)
    /\ mainState.state = call.publicInput.state
    /\ mainState.treeRoot # call.publicInput.treeRoot


\* C12. Registry-root invariant: the root of the head of the chain is the
\* Merkle root of the registry as the accepted RegistryUpdate steps of the
\* chain have built it from the genesis tree.  Step by step: an accepted
\* RegistryUpdate step on the root of a tree returns the root of that tree
\* with its key in a leaf that was empty, and an accepted Validate step
\* returns the root it was given.
C12_RegistryRoot ==
    /\ mainState.treeRoot = getRoot(tree)
    /\ (IsAdd /\ call.result.ok) =>
         \A t \in TreesBefore :
            getRoot(t) = call.publicInput.treeRoot
                => LET i == calculateIndex(call.merkleWitness)
                   IN  /\ t[i] = EMPTY
                       /\ call.result.out.treeRoot
                            = getRoot(setLeaf(t, i, call.vk.hash))
    /\ (IsValidate /\ call.result.ok) =>
         call.result.out.treeRoot = call.publicInput.treeRoot

\* a chain of two inserts and a Validate step that changed the value
C12_Witness ==
    /\ IsValidate
    /\ call.result.ok
    /\ call.publicInput = call.stateBefore
    /\ Cardinality(Occupied(tree)) = 2
    /\ mainState.state # F(0)
    /\ mainState.treeRoot = getRoot(tree)


IsMultiplication == call.method = "performMultiplication"

\* DynamicMultiplyProof.dummy(undefined, Field(0), 0)
dummyProof == Proof(Undefined, F(0), NoKey)

\* DynamicMultiplyProof.fromProof(multiply1), multiply1 the proof of 3 * 3
multiply1 == Proof(Undefined, F(9), mulVk.hash)

\* C13. Allowlist end-to-end: with the trusted key, performAddition(5,
\* dummyProof, mulVk) is accepted with output 5; performMultiplication(3, 3)
\* yields 9 and a proof of it; performAddition(4, that proof, mulVk) takes the
\* verifying path and is accepted with output 13.  An accepted
\* performAddition returns the public output of its proof plus its field.
C13_AllowlistEndToEnd ==
    /\ (IsAddition /\ call.field = F(5) /\ call.proof = dummyProof /\ call.vk = mulVk)
         => (SkipCondition /\ call.result.ok /\ call.result.out = F(5))
    /\ (IsMultiplication /\ call.field1 = F(3) /\ call.field2 = F(3))
         => (call.result.ok /\ call.result.out = F(9) /\ call.proof = multiply1)
    /\ (IsAddition /\ call.field = F(4) /\ call.proof = multiply1 /\ call.vk = mulVk)
         => (~SkipCondition /\ Verify(call.proof, call.vk)
             /\ call.result.ok /\ call.result.out = F(13))
    /\ (IsAddition /\ call.result.ok)
         => call.result.out[1]
              = (call.proof.publicOutput[1] + call.field[1]) % FieldOrder

\* the second addition of the driver
C13_Witness ==
    /\ IsAddition
    /\ call.field = F(4)
    /\ call.proof = multiply1
    /\ call.vk = mulVk
    /\ call.result.out = F(13)


\* C14. The skip decision of performAddition is a function of the public
\* output of the dynamic proof only: with the trusted key, a proof whose
\* public output is not 0 has to verify under vk for the step to be accepted,
\* a proof whose public output is 0 never has to, and the private addend
\* changes nothing of this.
C14_SkipDecision ==
    (IsAddition /\ KeyTrusted) =>
        /\ ~SkipCondition => (call.result.ok <=> Verify(call.proof, call.vk))
        /\ SkipCondition => call.result.ok
        /\ \A field \in FieldElements :
              performAddition(field, call.proof, call.vk).ok = call.result.ok

\* a proof that does not verify, with public output other than 0, is rejected
\* although the private addend is 0
C14_Witness ==
    /\ IsAddition
    /\ KeyTrusted
    /\ call.field = F(0)
    /\ ~SkipCondition
    /\ ~Verify(call.proof, call.vk)
    /\ call.result.err = "ProofInvalid"


\* C15. Value threading: a Validate step whose dynamic proof has a public
\* input other than the value of the input state is rejected; in an accepted
\* Validate step the public input of the dynamic proof is the value of the
\* input state, which is the output value of the predecessor, and on the head
\* of the chain it is the value the chain had.
C15_ValueThreading ==
    IsValidate =>
        /\ ~ChildInputMatches => ~call.result.ok
        /\ call.result.ok =>
             /\ call.proof.publicInput = call.publicInput.state
             /\ call.proof.publicInput = call.previous.publicOutput.state
             /\ call.publicInput = call.stateBefore
                  => call.proof.publicInput = call.stateBefore.state

\* a verifying proof of a registered key, on another public input than the
\* value of the chain, is rejected
C15_Witness ==
    /\ IsValidate
    /\ ContinuityHolds
    /\ KeyInTree
    /\ ChildVerifies
    /\ call.publicInput = call.stateBefore
    /\ ~ChildInputMatches
    /\ call.result.err = "ConstraintViolation"


\* C16. Append-only registry: a step leaves every non-empty leaf of the
\* registry as it was; a step that leaves the registry as it was leaves the
\* root of the chain as it was, and after a step that changes the registry
\* every key that was in it is in the tree of the new root of the chain, with
\* a witness built against the tree after the step; an accepted
\* RegistryUpdate step on the root of any tree returns a root under which
\* every key of that tree is still found at its index.
C16_AppendOnly ==
    /\ (IsAdd \/ IsValidate) =>
         /\ \A j \in Occupied(call.treeBefore) : tree[j] = call.treeBefore[j]
         /\ IF tree = call.treeBefore
            THEN mainState.treeRoot = call.stateBefore.treeRoot
            ELSE \A j \in Occupied(call.treeBefore) :
                    calculateRoot(getWitness(tree, j), call.treeBefore[j])
                        = mainState.treeRoot
    /\ (IsAdd /\ call.result.ok) =>
         \A t \in TreesBefore :
            getRoot(t) = call.publicInput.treeRoot
                => LET after == setLeaf(t, calculateIndex(call.merkleWitness),
                                        call.vk.hash)
                   IN  \A j \in Occupied(t) :
                          /\ after[j] = t[j]
                          /\ calculateRoot(getWitness(after, j), t[j])
                               = call.result.out.treeRoot

\* a second key is inserted next to the first one
C16_Witness ==
    /\ IsAdd
    /\ call.result.ok
    /\ call.publicInput = call.stateBefore
    /\ Occupied(call.treeBefore) # {}
    /\ tree # call.treeBefore
    /\ mainState.treeRoot = getRoot(tree)


\* C17. Validate has no base-case skip: every accepted Validate step had a
\* dynamic proof that verifies under the key it was given; a proof that does
\* not verify under that key is rejected, also on a state whose value is 0,
\* also when the public output of the proof is 0, and also on the first
\* Validate step after genesis.
C17_NoBaseCaseSkip ==
    IsValidate =>
        /\ call.result.ok => ChildVerifies
        /\ (~ChildVerifies /\ call.publicInput.state = F(0)) => ~call.result.ok
        /\ (~ChildVerifies /\ call.proof.publicOutput = F(0)) => ~call.result.ok
        /\ (~ChildVerifies /\ OtherChecksPass) => call.result.err = "ProofInvalid"

\* on the head of a chain of value 0, a dummy proof with public output 0 for
\* a registered key is rejected
C17_Witness ==
    /\ IsValidate
    /\ call.publicInput = call.stateBefore
    /\ call.publicInput.state = F(0)
    /\ call.proof.publicOutput = F(0)
    /\ OtherChecksPass
    /\ ~ChildVerifies
    /\ call.result.err = "ProofInvalid"


\* C18. Acceptance of a RegistryUpdate step depends on the input root, the
\* witness and the key only: the step is accepted exactly when the input root
\* is the root the witness computes from the empty leaf, whatever the value
\* of the input state, and whether or not the input state is the output of
\* an earlier accepted step.
C18_UpdateAcceptance ==
    IsAdd =>
        /\ call.result.ok
             <=> call.publicInput.treeRoot = calculateRoot(call.merkleWitness, EMPTY)
        /\ \A value \in FieldElements :
              addSideloadedProgram(
                  MainProgramState(call.publicInput.treeRoot, value),
                  call.vk, call.merkleWitness).ok = call.result.ok

\* an accepted step on a state that no step has returned; the chain of the
\* callers stays where it was
C18_Witness ==
    /\ IsAdd
    /\ call.result.ok
    /\ call.publicInput.state # call.stateBefore.state
    /\ call.publicInput.state # F(0)
    /\ mainState = call.stateBefore
    /\ tree = call.treeBefore


\* C19. In the Allowlist chain, an accepted performAddition whose output
\* differs from its private addend is one whose proof has a public output
\* other than 0, and its dynamic proof verified under a key whose hash is the
\* trusted hash; an accepted performAddition that skipped the verification
\* returns its private addend.
C19_AllowlistOutput ==
    (IsAddition /\ call.result.ok) =>
        /\ call.result.out # call.field <=> ~SkipCondition
        /\ call.result.out # call.field
             => (Verify(call.proof, call.vk) /\ KeyTrusted)
        /\ SkipCondition => call.result.out = call.field

\* an accepted addition of a product other than 0 to an addend other than 0
C19_Witness ==
    /\ IsAddition
    /\ call.result.ok
    /\ call.field # F(0)
    /\ call.result.out # call.field
    /\ Verify(call.proof, call.vk)
    /\ KeyTrusted

=============================================================================
